---- MODULE Spec2Model ----
(***************************************************************************)
(* A model of the AcuAssist TCM report application:                        *)
(*   src/app.py                     the Streamlit script (form, record     *)
(*                                  store, Generate handler, assembler)    *)
(*   src/pages/2_Generate_Report.py the stand-alone Generate page          *)
(*                                                                         *)
(* One Streamlit session is modelled.  A script run renders the page and   *)
(* dispatches at most one button; the Generate handler is modelled step by *)
(* step (gate and global retrieval, one step per report section, the code  *)
(* after the assembler returns), and no other handler can interleave with  *)
(* it because Streamlit runs a session's script sequentially.              *)
(*                                                                         *)
(* The collaborators (vector search, LLM, Google Docs, Google Sheets) are  *)
(* the environment: every call's outcome is chosen among the outcomes the  *)
(* variable stub allows.                                                   *)
(***************************************************************************)
EXTENDS Integers, Sequences, FiniteSets, Bags, TLC

VARIABLES
    prog,              \* which script runs: "app" (app.py) or "page" (2_Generate_Report.py)
    stub,              \* the outcomes each collaborator may produce
    session_keys,      \* the keys present in st.session_state
    patient_info,      \* st.session_state.patient_info, an insertion-ordered dict
    generated_report,  \* st.session_state.generated_report
    pc,                \* position of the session's script
    i,                 \* generate_diagnostic_report: index of the next section (1-based)
    document,          \* generate_diagnostic_report: document / full_report being built
    progress,          \* numerator of the last progress_bar.progress((i + 1) / n)
    context,           \* the handler's context string (global retrieval)
    prompt,            \* the last generation call: its section, its context and its answer
    calls,             \* collaborator calls made by the current handler
    msgs,              \* the bag of st.success / st.warning / st.error / st.write messages
                       \* shown by the current script run
    gate,              \* the gate's decision in the current handler and the state it saw
    sheet,             \* the spreadsheet: a sequence of rows of cells
    docs,              \* the Google Docs created so far
    dob,               \* the date the date-of-birth widget holds in the current script run
    user_input,        \* the handler's serializable_patient_info, <<>> before it is made
    download           \* the paragraphs of the docx offered for download, <<>> when none

vars == <<prog, stub, session_keys, patient_info, generated_report, pc, i,
          document, progress, context, prompt, calls, msgs, gate, sheet, docs,
          dob, user_input, download>>

(***************************************************************************)
(* Bounds of the model.                                                    *)
(***************************************************************************)
MaxDocs == 2   \* Google Docs created in one behaviour
MaxRows == 2   \* data rows appended to the sheet in one behaviour

(***************************************************************************)
(* Python values.                                                          *)
(***************************************************************************)
None == "None"

\* bool(v) of a str-or-None value
Truthy(v) == v # "" /\ v # None

Min(a, b) == IF a < b THEN a ELSE b

(***************************************************************************)
(* A Python dict: a sequence of <<key, value>> in insertion order.         *)
(***************************************************************************)
DictKeys(d) == {d[j][1] : j \in DOMAIN d}

\* d.get(k, default)
DictGet(d, k, default) ==
    IF k \in DictKeys(d)
    THEN LET j == CHOOSE x \in DOMAIN d : d[x][1] = k IN d[j][2]
    ELSE default

\* d[k] = v : an existing key keeps its position, a new key goes last
DictSet(d, k, v) ==
    IF k \in DictKeys(d)
    THEN [j \in DOMAIN d |-> IF d[j][1] = k THEN <<k, v>> ELSE d[j]]
    ELSE Append(d, <<k, v>>)

\* d.update(kvs) for a literal kvs (distinct keys, in the literal's order)
DictUpdate(d, kvs) ==
    LET old == DictKeys(d)
        new == DictKeys(kvs)
    IN  [j \in DOMAIN d |-> IF d[j][1] \in new
                            THEN <<d[j][1], DictGet(kvs, d[j][1], None)>>
                            ELSE d[j]]
        \o SelectSeq(kvs, LAMBDA kv : kv[1] \notin old)

\* list(d.values())
DictValues(d) == [j \in DOMAIN d |-> d[j][2]]

\* dict(zip(headers, row)) : zip stops at the shorter one
DictZip(headers, row) ==
    [j \in 1..Min(Len(headers), Len(row)) |-> <<headers[j], row[j]>>]

\* "\n".join(parts), kept as the sequence of parts and separators
RECURSIVE Join(_)
Join(parts) ==
    IF Len(parts) <= 1 THEN parts
    ELSE <<parts[1], "\n">> \o Join(Tail(parts))

(***************************************************************************)
(* Dates: a date is [year, month, day].                                    *)
(***************************************************************************)
\* datetime.date.today() of the session
Today == [year |-> 2026, month |-> 11, day |-> 2]

\* the date of birth the user enters when no other is said (a date the
\* widget offers for a new patient)
DefaultDob == [year |-> 2020, month |-> 6, day |-> 15]

\* the (day, month) pairs of the dates considered
DayMonths == {<<15, 6>>, <<2, 11>>, <<3, 11>>}

\* a <= b on dates
DateLeq(a, b) ==
    \/ a.year < b.year
    \/ a.year = b.year /\ a.month < b.month
    \/ a.year = b.year /\ a.month = b.month /\ a.day <= b.day

\* a two-digit field of strftime
Pad2(n) == IF n < 10 THEN "0" \o ToString(n) ELSE ToString(n)

\* date.strftime("%d/%m/%y") : the year is written modulo 100
strftime_dmy(d) ==
    Pad2(d.day) \o "/" \o Pad2(d.month) \o "/" \o Pad2(d.year % 100)

\* datetime.strptime(s, "%d/%m/%y") : the fields that s spells; a two-digit
\* year 69..99 is read as 1969..1999 and 00..68 as 2000..2068
strptime_dmy(s) ==
    LET f == CHOOSE x \in DayMonths \X (0..99) :
                 Pad2(x[1][1]) \o "/" \o Pad2(x[1][2]) \o "/" \o Pad2(x[2]) = s
    IN  [year  |-> IF f[2] <= 68 THEN 2000 + f[2] ELSE 1900 + f[2],
         month |-> f[1][2],
         day   |-> f[1][1]]

\* calculate_age(born)
calculate_age(born) ==
    Today.year - born.year
      - (IF Today.month < born.month
            \/ (Today.month = born.month /\ Today.day < born.day)
         THEN 1 ELSE 0)

(***************************************************************************)
(* The intake form of app.py (patient_info_page).                          *)
(***************************************************************************)
\* the keys of the update literal, in its order
FormKeys ==
    << "Patient Name", "Date of Birth (DD/MM/YY)", "Age", "Gender",
       "Chief Complaint", "Duration of Complaint", "Complexion",
       "Tongue Color", "Tongue Coating", "Tongue Shape and Features",
       "Voice Sound", "Breath Odor", "Cold/Heat Sensation", "Sweating",
       "Appetite and Thirst", "Sleep Pattern", "Bowel Movements", "Urination",
       "Pain (location, nature, factors that alleviate or aggravate)",
       "Pulse Rate (BPM)", "Pulse Quality", "Emotional State",
       "Lifestyle Factors (diet, exercise, stress, etc.)",
       "Relevant Medical History" >>

\* the widgets whose value is never empty: date input, the age computed from
\* it, the select boxes and the number input
WidgetDefault(k) ==
    CASE k = "Date of Birth (DD/MM/YY)" -> strftime_dmy(DefaultDob)
      [] k = "Age" -> ToString(calculate_age(DefaultDob))
      [] k = "Gender" -> "Male"
      [] k = "Tongue Color" -> "Not observed"
      [] k = "Tongue Coating" -> "Not observed"
      [] k = "Cold/Heat Sensation" -> "Normal"
      [] k = "Pulse Rate (BPM)" -> "70"
      [] OTHER -> ""

\* the free-text widgets other than the name (and the multiselect), in form order
TextKeys ==
    SelectSeq(FormKeys, LAMBDA k : k # "Patient Name" /\ WidgetDefault(k) = "")

\* what the user may type as the name, and how many of the free-text widgets
\* (the first fill of TextKeys) the user has filled in
NameInputs == {"", "Jane"}
FillLevels == {0, 5}

FormValue(k, name, fill) ==
    IF k = "Patient Name" THEN name
    ELSE IF WidgetDefault(k) # "" THEN WidgetDefault(k)
    ELSE IF \E j \in 1..fill : TextKeys[j] = k THEN "text"
    ELSE ""

\* the dict literal of st.session_state.patient_info.update({...})
FormLiteral(name, fill) ==
    [j \in DOMAIN FormKeys |-> <<FormKeys[j], FormValue(FormKeys[j], name, fill)>>]

\* the number of form fields that hold a value, and the number of form fields
Populated(info) ==
    Cardinality({j \in DOMAIN FormKeys : Truthy(DictGet(info, FormKeys[j], ""))})
RequiredFields == Len(FormKeys)

(***************************************************************************)
(* The spreadsheet behind the Sheets API.  A row is kept as the API reads  *)
(* it back: without its trailing empty cells.  Row 1 holds the headers.    *)
(***************************************************************************)
Headers == FormKeys \o <<"Report ID", "Report Link">>

RECURSIVE Trim(_)
Trim(row) ==
    IF row = <<>> THEN row
    ELSE IF row[Len(row)] = "" THEN Trim(SubSeq(row, 1, Len(row) - 1))
    ELSE row

\* values().get(range="A:A") : one list per row, empty for an empty cell
ColumnA(sh) == [r \in DOMAIN sh |-> IF sh[r] = <<>> \/ sh[r][1] = "" THEN <<>> ELSE <<sh[r][1]>>]

\* values().update(range=A<r>, body=values) : writes Len(values) cells from
\* column A; a null is skipped, "" empties the cell, later cells are kept
CellWritten(old, values, c) ==
    IF c <= Len(values) /\ values[c] # None THEN values[c]
    ELSE IF c <= Len(old) THEN old[c] ELSE ""

UpdateRow(old, values) ==
    Trim([c \in 1..(IF Len(old) > Len(values) THEN Len(old) ELSE Len(values))
            |-> CellWritten(old, values, c)])

SheetUpdate(sh, r, values) == [sh EXCEPT ![r] = UpdateRow(sh[r], values)]

\* values().append(range="Sheet1!A1") : a new row after the table
SheetAppend(sh, values) == Append(sh, UpdateRow(<<>>, values))

\* str.lower()
Lower(s) ==
    CASE s = "Jane" -> "jane"
      [] s = "Li" -> "li"
      [] s = "Patient Name" -> "patient name"
      [] OTHER -> s

\* next((i for i, name in enumerate(names) if name and name[0] == key), None),
\* as a 1-based row number, 0 for None
RowIndex(names, key) ==
    LET hits == {r \in DOMAIN names : names[r] # <<>> /\ names[r][1] = key}
    IN  IF hits = {} THEN 0 ELSE CHOOSE r \in hits : \A q \in hits : r <= q

\* save_or_update_patient(sheets_service, patient_data), the sheet it leaves
\* when no API call raises
save_or_update_patient(sh, patient_data) ==
    LET names == ColumnA(sh)
        row_index == RowIndex(names, DictGet(patient_data, "Patient Name", None))
        values == DictValues(patient_data)
    IN  IF row_index # 0 THEN SheetUpdate(sh, row_index, values)
        ELSE SheetAppend(sh, values)

\* get_all_patients(sheets_service) : range A2:A without the empty entries
get_all_patients(sh) ==
    {sh[r][1] : r \in {q \in DOMAIN sh : q >= 2 /\ ColumnA(sh)[q] # <<>>}}

\* search_patient(sheets_service, name) : the first data row whose column A
\* equals name ignoring case, as dict(zip(headers, row)), with the report text
\* under 'Report Content' when the row carries a report id (None when the
\* document cannot be read)
ReportText(doc_id) == "text of " \o doc_id

search_patient(sh, name, docs_ok) ==
    LET hits == {r \in 2..Len(sh) : Lower(sh[r][1]) = Lower(name)}
    IN  IF hits = {} THEN [found |-> FALSE, data |-> <<>>]
        ELSE LET r == CHOOSE q \in hits : \A h \in hits : q <= h
                 patient_data == DictZip(sh[1], sh[r])
             IN  IF Truthy(DictGet(patient_data, "Report ID", ""))
                 THEN [found |-> TRUE,
                       data  |-> DictSet(patient_data, "Report Content",
                                    IF docs_ok
                                    THEN ReportText(DictGet(patient_data, "Report ID", ""))
                                    ELSE None)]
                 ELSE [found |-> TRUE, data |-> patient_data]

(***************************************************************************)
(* The report and its sections.                                            *)
(***************************************************************************)
\* report_sections of generate_diagnostic_report, per script
report_sections(p) ==
    IF p = "app"
    THEN << "1. Patient Overview", "2. TCM Diagnosis", "3. Pattern Differentiation",
            "4. Treatment Principle and Plan", "5. Acupuncture Point Prescription",
            "6. Herbal Formula Recommendation", "7. Lifestyle and Dietary Advice",
            "8. Prognosis and Follow-up Recommendations" >>
    ELSE << "1. Case Abstract", "2. Case Study", "3. TCM Diagnosis",
            "4. Diagnosis and Treatment Plan",
            "5. TCM Pattern Differentiation Diagram", "6. References" >>

\* A docx paragraph (style "Title", "Heading 1", "Normal"), or a piece of the
\* page's report string (style "str")
Para(style, text) == [style |-> style, text |-> text]

\* what the LLM answers for a section when it answers
ContentOf(section) == "content of " \o section

\* Document(); document.add_heading(f"TCM Diagnostic Report for {name}", 0)
\* in app.py, full_report = "" in the page
NewReport(p, patient_name) ==
    IF p = "app" THEN <<Para("Title", "TCM Diagnostic Report for " \o patient_name)>>
    ELSE <<>>

\* a report that puts each new section before the earlier ones
AddSectionFirst(p, doc, section, section_content) ==
    IF p = "app"
    THEN <<Para("Heading 1", section), Para("Normal", section_content)>> \o doc
    ELSE <<Para("str", "\n\n"), Para("str", section),
           Para("str", "\n"), Para("str", section_content)>> \o doc

\* add_heading(section, level=1); add_paragraph(section_content) in app.py,
\* full_report += f"\n\n{section}\n{section_content}" in the page
AddSection(p, doc, section, section_content) ==
    IF p = "app"
    THEN doc \o <<Para("Heading 1", section), Para("Normal", section_content)>>
    ELSE doc \o <<Para("str", "\n\n"), Para("str", section),
                  Para("str", "\n"), Para("str", section_content)>>

\* the values of st.session_state.generated_report
NoReport == [kind |-> "None", body |-> <<>>]
Report(p, doc) == [kind |-> IF p = "app" THEN "Document" ELSE "str", body |-> doc]

\* bool(report) : a python-docx Document defines neither __bool__ nor
\* __len__, a str is true when it is not empty
ReportTruthy(report) ==
    CASE report.kind = "None" -> FALSE
      [] report.kind = "Document" -> TRUE
      [] OTHER -> report.body # <<>>

\* "\n".join([para.text for para in report.paragraphs])
ReportContent(doc) == Join([j \in DOMAIN doc |-> doc[j].text])

(***************************************************************************)
(* The collaborators' outcomes.                                            *)
(***************************************************************************)
GenOutcomes   == {"text", "empty", "raise"}       \* content / None or "" / exception
RetrOutcomes  == {"passages", "malformed", "raise"}
DocsOutcomes  == {"ok", "fail_early", "fail_late"} \* fail_late: after files().create
SheetOutcomes == {"ok", "raise_read", "raise_write"}

\* on each call the generator answers, answers nothing or raises, and
\* retrieval answers or raises; Docs and Sheets work
RunStub == [gen |-> GenOutcomes, retr |-> {"passages", "raise"},
            docs |-> {"ok"}, sheets |-> {"ok"}]

\* the passages a successful search returns
Passages(query) == <<"passage A for " \o query, "passage B for " \o query>>

\* the handler's query: the serialized intake
IntakeQuery == "the intake"

\* the collaborators of one behaviour of the whole session: all of them
\* work, or one of them fails in one way on every call
Working == [gen |-> {"text"}, retr |-> {"passages"}, docs |-> {"ok"}, sheets |-> {"ok"}]
Scenarios ==
    {Working}
    \cup {[Working EXCEPT !.gen = {o}] : o \in GenOutcomes}
    \cup {[Working EXCEPT !.retr = {o}] : o \in RetrOutcomes}
    \cup {[Working EXCEPT !.docs = {o}] : o \in DocsOutcomes}
    \cup {[Working EXCEPT !.sheets = {o}] : o \in SheetOutcomes}

DocId(n) == "doc" \o ToString(n)
DocLink(n) == "link" \o ToString(n)

Msg(level, what, arg) == [level |-> level, what |-> what, arg |-> arg]

\* the screen after showing the messages of seq as well
RECURSIVE Show(_, _)
Show(screen, seq) ==
    IF seq = <<>> THEN screen
    ELSE Show(screen (+) SetToBag({seq[1]}), Tail(seq))
NoCalls == [retr |-> 0, gen |-> 0, docs |-> 0, sheet_writes |-> 0]
NoGate == [decision |-> "none", populated |-> 0, fields |-> 0]
NoPrompt == [section |-> "", context |-> <<>>, answer |-> None]

(***************************************************************************)
(* The intake of the stand-alone pages (1_Patient_Information.py writes    *)
(* it, 2_Generate_Report.py reads it).                                     *)
(***************************************************************************)
PageKeys ==
    << "name", "dob", "age", "gender", "occupation", "chief_complaint",
       "complaint_background", "medical_history", "lifestyle",
       "current_medications",
       "Chills and/or fever_answer", "Sweating and/or hot flushes_answer",
       "Headaches (type, frequency, location) or dizziness_answer",
       "Chest and/or digestion problems_answer", "Food & appetite issues_answer",
       "Stool & urination problems_answer", "Sleep issues_answer",
       "Deafness or tinnitus_answer", "Thirst & drink preferences_answer",
       "Pain (type, quality & location)_answer",
       "tongue_color", "tongue_coating", "tongue_shape",
       "tongue_moisture", "pulse_rate", "pulse_quality", "additional_symptoms" >>

\* the ten question select boxes ("No" / "Yes")
QuestionKeys == {PageKeys[j] : j \in 11..20}

PageDefault(k) ==
    CASE k = "dob" -> "15/06/1990"
      [] k = "age" -> "36"
      [] k = "gender" -> "Male"
      [] k = "tongue_color" -> "Not analysed"
      [] k = "tongue_coating" -> "'None'"   \* the option named None, a str
      [] k = "tongue_moisture" -> "Normal"
      [] k = "pulse_rate" -> "70"
      [] k \in QuestionKeys -> "No"
      [] OTHER -> ""

PageTextKeys == SelectSeq(PageKeys, LAMBDA k : k # "name" /\ PageDefault(k) = "")

PageLiteral(name, fill) ==
    [j \in DOMAIN PageKeys |->
        <<PageKeys[j],
          IF PageKeys[j] = "name" THEN name
          ELSE IF PageDefault(PageKeys[j]) # "" THEN PageDefault(PageKeys[j])
          ELSE IF \E q \in 1..Min(fill, Len(PageTextKeys)) : PageTextKeys[q] = PageKeys[j]
               THEN "text" ELSE "">>]

PagePopulated(info) ==
    Cardinality({j \in DOMAIN PageKeys : Truthy(DictGet(info, PageKeys[j], ""))})

(***************************************************************************)
(* The state after construction: app.py lines 364-373.                     *)
(***************************************************************************)
Locals0 ==
    /\ i = 0
    /\ document = <<>>
    /\ progress = 0
    /\ context = <<>>
    /\ prompt = NoPrompt
    /\ calls = NoCalls
    /\ msgs = EmptyBag
    /\ gate = NoGate
    /\ user_input = <<>>
    /\ download = <<>>

Init ==
    /\ prog = "app"
    /\ stub \in Scenarios
    /\ session_keys = {"patient_info", "generated_report"}
    /\ patient_info = <<>>
    /\ generated_report = NoReport
    /\ pc = "idle"
    /\ Locals0
    /\ dob = DefaultDob
    /\ sheet = <<Headers>>
    /\ docs = <<>>

\* the script run has ended: after a page without a handler ("shown"), after
\* the Save handler ("saved"), after the Generate handler ("done", "failed"
\* when an exception ended it, "rejected" when its gate refused)
Ended == pc \in {"shown", "saved", "done", "failed", "rejected"}

\* a new script run starts with fresh locals and an empty screen
FreshLocals ==
    /\ i' = 0
    /\ document' = <<>>
    /\ progress' = 0
    /\ context' = <<>>
    /\ prompt' = NoPrompt
    /\ calls' = NoCalls
    /\ gate' = NoGate
    /\ user_input' = <<>>

(***************************************************************************)
(* patient_info_page() of app.py: the patient drop-down (a stored patient  *)
(* is loaded, "New Patient" clears the session's data), then the form's    *)
(* update of st.session_state.patient_info.                                *)
(***************************************************************************)
clear_patient_data_msg == Msg("success", "Patient data has been cleared.", "")

\* search_patient as its callers see it: nothing found when the read raises
Searched(name, read_ok, docs_ok) ==
    IF read_ok THEN search_patient(sheet, name, docs_ok)
    ELSE [found |-> FALSE, data |-> <<>>]

\* st.session_state.patient_info after the page has rendered, info being
\* its value before
RenderedInfo(info, selected, name, fill, read_ok, docs_ok) ==
    LET found == Searched(selected, read_ok, docs_ok)
        base == IF selected = "New Patient" THEN <<>>
                ELSE IF found.found THEN found.data
                ELSE info
    IN  DictUpdate(base, FormLiteral(name, fill))

RenderedReport(selected) ==
    IF selected = "New Patient" THEN NoReport ELSE generated_report

RenderedMsgs(selected, read_ok) ==
    IF selected = "New Patient" THEN <<clear_patient_data_msg>>
    ELSE IF read_ok /\ search_patient(sheet, selected, TRUE).found
         THEN <<Msg("success", "Loaded data for patient", selected)>>
         ELSE <<Msg("error", "Failed to load data for patient", selected)>>

\* the user's choices in one script run of the Patient Information page
Selectable == {"New Patient"} \cup get_all_patients(sheet)

\* every outcome of patient_info_page() in the current state, info being
\* the session's intake before: the session's intake and report, and the
\* messages shown
Renders(info) ==
    {[info   |-> RenderedInfo(info, selected, name, fill, read_ok, docs_ok),
      report |-> RenderedReport(selected),
      msgs   |-> RenderedMsgs(selected, read_ok)] :
        selected \in Selectable, name \in NameInputs, fill \in FillLevels,
        read_ok \in {o # "raise_read" : o \in stub.sheets},
        docs_ok \in {o # "fail_early" : o \in stub.docs}}

(***************************************************************************)
(* main() of app.py: one script run = the page, then at most one button.   *)
(***************************************************************************)
\* page == "View Report": view_report_page()
ViewReport ==
    /\ prog = "app" /\ pc = "idle"
    /\ pc' = "shown"
    /\ FreshLocals
    /\ msgs' = IF ReportTruthy(generated_report) THEN EmptyBag
               ELSE Show(EmptyBag, <<Msg("warning", "No report has been generated yet.", "")>>)
    /\ download' = IF ReportTruthy(generated_report) THEN generated_report.body ELSE <<>>
    /\ UNCHANGED <<dob, prog, stub, session_keys, patient_info, generated_report, sheet, docs>>

\* page == "Patient Information", no button pressed
RenderForm ==
    /\ prog = "app" /\ pc = "idle"
    /\ \E r \in Renders(patient_info) :
        /\ patient_info' = r.info
        /\ generated_report' = r.report
        /\ msgs' = Show(EmptyBag, r.msgs)
    /\ pc' = "shown"
    /\ FreshLocals
    /\ UNCHANGED <<dob, download, prog, stub, session_keys, sheet, docs>>

\* "Search" in the Patient Search expander: a patient found replaces the
\* session's intake and the script reruns; otherwise a warning is shown and
\* the page goes on rendering
SearchClick ==
    /\ prog = "app" /\ pc = "idle"
    /\ \E found \in {Searched(search_name, read_ok, docs_ok) :
                        search_name \in NameInputs,
                        read_ok \in {o # "raise_read" : o \in stub.sheets},
                        docs_ok \in {o # "fail_early" : o \in stub.docs}} :
          IF found.found
          THEN \E r \in Renders(found.data) :
                  /\ patient_info' = r.info
                  /\ generated_report' = r.report
                  /\ msgs' = Show(EmptyBag, r.msgs)
          ELSE \E r \in Renders(patient_info) :
                  /\ patient_info' = r.info
                  /\ generated_report' = r.report
                  /\ msgs' = Show(EmptyBag,
                                  Append(r.msgs, Msg("warning", "No patient found with name", "")))
    /\ pc' = "shown"
    /\ FreshLocals
    /\ UNCHANGED <<dob, download, prog, stub, session_keys, sheet, docs>>

\* save_or_update_patient as main() sees it: the sheet, the writes issued
\* and the message, for each outcome of the Sheets API
Saved(sh, info, o) ==
    [sheet  |-> IF o = "ok" THEN save_or_update_patient(sh, info) ELSE sh,
     writes |-> IF o = "raise_read" THEN 0 ELSE 1,
     msg    |-> IF o = "ok"
                THEN Msg("success", "Patient data saved/updated successfully", "")
                ELSE Msg("error", "Error saving/updating patient data", "")]

\* "Save Patient Information"
SaveClick ==
    /\ prog = "app" /\ pc = "idle"
    /\ \E r \in Renders(patient_info) :
        /\ Len(save_or_update_patient(sheet, r.info)) <= 1 + MaxRows
        /\ patient_info' = r.info
        /\ generated_report' = r.report
        /\ IF "Patient Name" \in DictKeys(r.info) /\ Truthy(DictGet(r.info, "Patient Name", ""))
           THEN \E s \in {Saved(sheet, r.info, o) : o \in stub.sheets} :
                   /\ msgs' = Show(EmptyBag, Append(r.msgs, s.msg))
                   /\ calls' = [NoCalls EXCEPT !.sheet_writes = s.writes]
                   /\ sheet' = s.sheet
           ELSE /\ msgs' = Show(EmptyBag, Append(r.msgs, Msg("error", "Please enter patient name before saving", "")))
                /\ calls' = NoCalls
                /\ sheet' = sheet
    /\ pc' = "saved"
    /\ i' = 0 /\ document' = <<>> /\ progress' = 0 /\ context' = <<>>
    /\ prompt' = NoPrompt /\ gate' = NoGate /\ user_input' = <<>>
    /\ UNCHANGED <<dob, download, prog, stub, session_keys, docs>>

\* "Clear Form": clear_patient_data(); st.experimental_rerun()
ClearClick ==
    /\ prog = "app" /\ pc = "idle"
    /\ patient_info' = <<>>
    /\ generated_report' = NoReport
    /\ msgs' = Show(EmptyBag, <<clear_patient_data_msg>>)
    /\ pc' = "shown"
    /\ FreshLocals
    /\ UNCHANGED <<dob, download, prog, stub, session_keys, sheet, docs>>

\* "Generate TCM Diagnostic Report": the page has rendered, the handler starts
GenerateClick ==
    /\ prog = "app" /\ pc = "idle"
    /\ Len(docs) < MaxDocs
    /\ \E r \in Renders(patient_info) :
        /\ Len(save_or_update_patient(sheet, r.info)) <= 1 + MaxRows
        /\ patient_info' = r.info
        /\ generated_report' = r.report
        /\ msgs' = Show(EmptyBag, r.msgs)
    /\ pc' = "clicked"
    /\ FreshLocals
    /\ UNCHANGED <<dob, download, prog, stub, session_keys, sheet, docs>>

(***************************************************************************)
(* The Generate handler.                                                   *)
(***************************************************************************)
\* app.py: len(st.session_state.patient_info) > 10
GateMinKeys == 10

\* a gate on the share of the form's fields that hold a value
GateByPopulated(p, info, keys) ==
    IF p = "app" THEN 2 * Populated(info) > RequiredFields
    ELSE "patient_info" \in keys

\* the handler's precondition: app.py tests the number of keys of the
\* intake, the page only that an intake is in the session
GateAccepts(p, info, keys) ==
    IF p = "app" THEN Len(info) > GateMinKeys
    ELSE "patient_info" \in keys

\* what the gate saw: the populated fields of the intake and the fields asked
GateSaw(p, info, accepted) ==
    [decision  |-> IF accepted THEN "accept" ELSE "reject",
     populated |-> IF p = "app" THEN Populated(info) ELSE PagePopulated(info),
     fields    |-> IF p = "app" THEN RequiredFields ELSE Len(PageKeys)]

Gate ==
    /\ pc = "clicked"
    /\ gate' = GateSaw(prog, patient_info, GateAccepts(prog, patient_info, session_keys))
    /\ IF GateAccepts(prog, patient_info, session_keys)
       THEN /\ pc' = "retrieve"
            /\ msgs' = msgs
       ELSE /\ pc' = "rejected"
            /\ msgs' = Show(msgs,
                 <<Msg("warning", "Please fill in more patient information before generating a report.", "")>>)
    /\ UNCHANGED <<dob, download, user_input, prog, stub, session_keys, patient_info,
                   generated_report, i, document, progress, context, prompt, calls,
                   sheet, docs>>

\* query_weaviate(query_text) / query_pinecone(query_text) and the join of
\* the passages: the context string, or "raise".  app.py's query_weaviate
\* answers [] (and shows an error) to a response of another shape; in the
\* page such a response has no 'matches' and the handler raises KeyError.
NeverRaises(p, o) == FALSE
QueryRaises(p, o) == o = "raise" \/ (p = "page" /\ o = "malformed")
QueryContext(o, query) == IF o = "passages" THEN Join(Passages(query)) ELSE Join(<<>>)
QueryMsgs(o) ==
    IF o = "malformed" THEN <<Msg("error", "Unexpected response format", "")>> ELSE <<>>

\* an int as a dict value (the form stores str(age), the handler an int)
IntValue(n) == "int " \o ToString(n)

\* serializable_patient_info: a copy of the intake whose Age is computed
\* again from the stored date of birth (app.py); the intake itself (page)
Serializable(p, info) ==
    IF p = "app"
    THEN DictSet(info, "Age",
            IntValue(calculate_age(
                strptime_dmy(DictGet(info, "Date of Birth (DD/MM/YY)", "")))))
    ELSE info

\* a handler that assigns 'Age' in the session's dict itself
Aliased(info, copy) == copy

\* st.session_state.patient_info after the assignment to the copy's 'Age'
AfterCopyAssign(info, copy) == info

\* the handler up to the call of generate_diagnostic_report, and that
\* function up to its loop
Retrieve ==
    /\ pc = "retrieve"
    /\ user_input' = Serializable(prog, patient_info)
    /\ patient_info' = AfterCopyAssign(patient_info, Serializable(prog, patient_info))
    /\ calls' = [calls EXCEPT !.retr = @ + 1]
    /\ \E o \in stub.retr :
        IF QueryRaises(prog, o)
        THEN /\ pc' = "failed"
             /\ msgs' = Show(msgs,
                  IF prog = "app"
                  THEN <<Msg("error", "An error occurred during report generation", "")>>
                  ELSE <<Msg("exception", "uncaught", "")>>)
             /\ UNCHANGED <<context, document, i, progress>>
        ELSE /\ pc' = "loop"
             /\ msgs' = Show(msgs, QueryMsgs(o))
             /\ context' = QueryContext(o, IntakeQuery)
             /\ document' = NewReport(prog, DictGet(patient_info, "Patient Name", "Patient"))
             /\ i' = 1
             /\ progress' = 0
    /\ UNCHANGED <<dob, download, prog, stub, session_keys, generated_report,
                   prompt, gate, sheet, docs>>

\* generate_diagnostic_report_part(...) : the LLM's text, "" when it answers
\* with nothing, None (after st.error) when the call raises
generate_diagnostic_report_part(o, section) ==
    [content |-> CASE o = "text" -> ContentOf(section)
                   [] o = "empty" -> ""
                   [] OTHER -> None,
     msgs    |-> IF o = "raise" THEN <<Msg("error", "An error occurred", "")>> ELSE <<>>]

\* an assembler that adds the section whatever the answer is
AlwaysAdded(p, doc, section, section_content) ==
    AddSection(p, doc, section, section_content)

\* if section_content: <add it to the report> : the report afterwards
AfterSection(p, doc, section, section_content) ==
    IF Truthy(section_content) THEN AddSection(p, doc, section, section_content) ELSE doc

\* a loop that says nothing about a failed section
NoWarning(section, section_content) == <<>>

\* else: st.warning(f"Failed to generate {section}. Moving to the next section.")
SectionMsgs(section, section_content) ==
    IF Truthy(section_content) THEN <<>>
    ELSE <<Msg("warning", "Failed to generate", section)>>

\* a progress bar that counts from the 0-based index
ProgressBefore(idx) == idx - 1

\* progress_bar.progress((i + 1) / len(report_sections)) : its numerator,
\* idx being the section's 1-based index
ProgressValue(idx) == idx

\* a loop that stays on a section until it succeeds
RetryFailed(idx, section_content) ==
    IF Truthy(section_content) THEN idx + 1 ELSE idx

\* for i, section in enumerate(report_sections): the next index, whatever
\* the section's outcome
NextIndex(idx, section_content) == idx + 1

\* a handler that keeps what was assembled when generation raises
StoredPartial(p, report, doc) == Report(p, doc)

\* except Exception as e: st.error(...) : the session's report afterwards
AfterException(p, report, doc) == report

\* one iteration of the loop of generate_diagnostic_report
Section ==
    /\ pc = "loop"
    /\ \E o_r \in (IF prog = "app" THEN stub.retr ELSE {"none"}), o_g \in stub.gen :
        LET sections == report_sections(prog)
            section == sections[i]
            section_context == IF prog = "app" THEN QueryContext(o_r, section) ELSE context
            part == generate_diagnostic_report_part(o_g, section)
        IN  IF prog = "app" /\ QueryRaises(prog, o_r)
            THEN /\ pc' = "failed"
                 /\ calls' = [calls EXCEPT !.retr = @ + 1]
                 /\ msgs' = Show(msgs,
                      <<Msg("error", "An error occurred during report generation", "")>>)
                 /\ generated_report' = AfterException(prog, generated_report, document)
                 /\ UNCHANGED <<i, document, progress, prompt>>
            ELSE /\ calls' = [calls EXCEPT !.retr = @ + (IF prog = "app" THEN 1 ELSE 0),
                                           !.gen = @ + 1]
                 /\ prompt' = [section |-> section, context |-> section_context,
                               answer |-> part.content]
                 /\ document' = AfterSection(prog, document, section, part.content)
                 /\ msgs' = Show(msgs, QueryMsgs(o_r) \o part.msgs
                                       \o SectionMsgs(section, part.content))
                 /\ progress' = ProgressValue(i)
                 /\ i' = NextIndex(i, part.content)
                 /\ pc' = IF NextIndex(i, part.content) > Len(sections)
                          THEN "returned" ELSE "loop"
                 /\ generated_report' = generated_report
    /\ UNCHANGED <<dob, download, user_input, prog, stub, session_keys, patient_info,
                   context, gate, sheet, docs>>

\* save_report_to_docs(...) : the documents in Drive afterwards
DocsAfter(ds, o, patient_name, report_content) ==
    IF o = "fail_early" THEN ds
    ELSE Append(ds, [name |-> "TCM Diagnostic Report - " \o patient_name,
                     content |-> IF o = "ok" THEN report_content ELSE <<>>])

\* a handler satisfied with a file that exists in Drive
DocCreated(o) == o # "fail_early"

\* if doc_id and doc_link: save_report_to_docs returns both only when
\* no call of it raised
DocSaved(o) == o = "ok"

\* the handler after generate_diagnostic_report has returned
Finish ==
    /\ pc = "returned"
    /\ IF prog = "page"
       THEN /\ msgs' = Show(msgs, <<Msg("success", "Report generated", ""),
                                     Msg("write", "Report generated successfully.", "")>>)
            /\ generated_report' = Report(prog, document)
            /\ session_keys' = session_keys \cup {"generated_report"}
            /\ UNCHANGED <<patient_info, calls, sheet, docs>>
       ELSE IF ~ReportTruthy(Report(prog, document))
       THEN /\ msgs' = Show(msgs, <<Msg("error", "Failed to generate the report. Please try again.", "")>>)
            /\ UNCHANGED <<generated_report, session_keys, patient_info, calls, sheet, docs>>
       ELSE \E o_d \in stub.docs :
            /\ generated_report' = Report(prog, document)
            /\ session_keys' = session_keys
            /\ docs' = DocsAfter(docs, o_d, DictGet(patient_info, "Patient Name", None),
                                 ReportContent(document))
            /\ IF ~DocSaved(o_d)
               THEN /\ msgs' = Show(msgs, <<Msg("success", "Report generated", ""),
                                             Msg("error", "Error saving report to Google Docs", ""),
                                             Msg("error", "Failed to save the report to Google Docs.", "")>>)
                    /\ calls' = [calls EXCEPT !.docs = @ + 1]
                    /\ UNCHANGED <<patient_info, sheet>>
               ELSE \E linked \in {DictSet(DictSet(patient_info, "Report ID", DocId(Len(docs) + 1)),
                                            "Report Link", DocLink(Len(docs) + 1))} :
                    \E s \in {Saved(sheet, linked, o) : o \in stub.sheets} :
                    /\ patient_info' = linked
                    /\ calls' = [calls EXCEPT !.docs = @ + 1, !.sheet_writes = @ + s.writes]
                    /\ sheet' = s.sheet
                    /\ msgs' = Show(msgs, <<Msg("success", "Report generated", ""), s.msg,
                                 Msg("write", "TCM Diagnostic Report generated and saved successfully.", "")>>)
    /\ pc' = "done"
    /\ UNCHANGED <<dob, download, user_input, prog, stub, i, document, progress, context,
                   prompt, gate>>

\* the script run is over: its locals and its screen are gone, the session
\* state stays
EndRun ==
    /\ prog = "app" /\ Ended
    /\ pc' = "idle"
    /\ FreshLocals
    /\ msgs' = EmptyBag
    /\ download' = <<>>
    /\ UNCHANGED <<dob, prog, stub, session_keys, patient_info, generated_report, sheet, docs>>

Next ==
    \/ EndRun
    \/ ViewReport
    \/ RenderForm
    \/ SearchClick
    \/ SaveClick
    \/ ClearClick
    \/ GenerateClick
    \/ Gate
    \/ Retrieve
    \/ Section
    \/ Finish

Spec == Init /\ [][Next]_vars

(***************************************************************************)
(* One run of the Generate handler, with retrieval and the generator free  *)
(* to fail on any call: the state when the button has been pressed on a    *)
(* freshly rendered form (app.py), or on the Generate page with an intake  *)
(* in the session.                                                         *)
(***************************************************************************)
InitRun ==
    /\ prog \in {"app", "page"}
    /\ stub = RunStub
    /\ session_keys = IF prog = "app" THEN {"patient_info", "generated_report"}
                      ELSE {"patient_info"}
    /\ \E name \in NameInputs, fill \in FillLevels :
          patient_info = IF prog = "app" THEN FormLiteral(name, fill)
                         ELSE PageLiteral(name, fill)
    /\ generated_report = NoReport
    /\ pc = "clicked"
    /\ i = 0
    /\ document = <<>>
    /\ progress = 0
    /\ context = <<>>
    /\ prompt = NoPrompt
    /\ calls = NoCalls
    /\ gate = NoGate
    /\ user_input = <<>>
    /\ download = <<>>
    /\ dob = DefaultDob
    /\ msgs = IF prog = "app" THEN Show(EmptyBag, <<clear_patient_data_msg>>) ELSE EmptyBag
    /\ sheet = <<Headers>>
    /\ docs = <<>>

\* report_text.split('\n') of the page's report string, cur being the line
\* read so far
RECURSIVE SplitLines(_, _)
SplitLines(pieces, cur) ==
    IF pieces = <<>> THEN <<cur>>
    ELSE IF Head(pieces).text = "\n" THEN <<cur>> \o SplitLines(Tail(pieces), "")
    ELSE IF Head(pieces).text = "\n\n" THEN <<cur, "">> \o SplitLines(Tail(pieces), "")
    ELSE SplitLines(Tail(pieces), cur \o Head(pieces).text)

\* create_docx_report(report_text, []) of 3_View_Report.py: the title, then
\* one paragraph per line of the text
create_docx_report(report_text) ==
    LET lines == SplitLines(report_text, "")
    IN  <<Para("Title", "TCM Diagnostic Report")>>
        \o [j \in DOMAIN lines |-> Para("Normal", lines[j])]

\* 3_View_Report.py after a run of the Generate page: the report is shown
\* and offered as a docx
ViewPage ==
    /\ prog = "page" /\ pc = "done"
    /\ pc' = "viewed"
    /\ FreshLocals
    /\ IF "generated_report" \in session_keys
       THEN /\ download' = create_docx_report(generated_report.body)
            /\ msgs' = EmptyBag
       ELSE /\ download' = <<>>
            /\ msgs' = Show(EmptyBag, <<Msg("warning", "No generated report found.", "")>>)
    /\ UNCHANGED <<dob, prog, stub, session_keys, patient_info, generated_report, sheet, docs>>

NextRun ==
    \/ Gate
    \/ Retrieve
    \/ Section
    \/ Finish
    \/ ViewPage

SpecRun == InitRun /\ [][NextRun]_vars

\* the script runs on: a handler that can take its next step takes it (the
\* user is free never to open the View Report page)
SpecRunFair == SpecRun /\ WF_vars(Gate \/ Retrieve \/ Section \/ Finish)

(***************************************************************************)
(* What a run's state shows: the sections attempted, the headings of the   *)
(* report, the warnings on the screen.                                     *)
(***************************************************************************)
Sections == report_sections(prog)

\* the sections whose iteration of the loop has completed
Attempted == {j \in DOMAIN Sections : j < i}

\* st.warning(f"Failed to generate {section}. ...") shown so far, per section
Warnings(j) == CopiesIn(Msg("warning", "Failed to generate", Sections[j]), msgs)

\* a heading of the report: a "Heading 1" paragraph of the docx, the line of
\* the page's string that holds the section's title
IsHeading(para) ==
    IF para.style = "str" THEN \E j \in DOMAIN Sections : Sections[j] = para.text
    ELSE para.style = "Heading 1"

\* the headings of a report body in text order
Headings(body) ==
    LET hs == SelectSeq(body, IsHeading) IN [j \in DOMAIN hs |-> hs[j].text]

\* where section j's heading stands in the report being built, and the text
\* that follows a heading
HeadingAt(j) ==
    {q \in DOMAIN document : IsHeading(document[q]) /\ document[q].text = Sections[j]}
TextAfter(q) == IF prog = "app" THEN q + 1 ELSE q + 2

\* section j is in the output once, heading then generated text
InOutput(j) ==
    /\ Cardinality(HeadingAt(j)) = 1
    /\ \A q \in HeadingAt(j) :
          /\ TextAfter(q) \in DOMAIN document
          /\ document[TextAfter(q)].text = ContentOf(Sections[j])

\* nothing of section j is in the output
Absent(j) ==
    /\ HeadingAt(j) = {}
    /\ \A q \in DOMAIN document : document[q].text # ContentOf(Sections[j])

Shown(level, what) == CopiesIn(Msg(level, what, ""), msgs) > 0
SomeShown(level) == \E m \in BagToSet(msgs) : m.level = level

\* the handler has started generating: retrieval or the generator was called
GenerationStarted ==
    calls.retr > 0 \/ calls.gen > 0 \/ pc \in {"retrieve", "loop", "returned"}

\* the column-A value of a stored row
NameOfRow(row) == IF row = <<>> THEN "" ELSE row[1]

\* the row written for the record of the session by a save that succeeded
SavedOk == Shown("success", "Patient data saved/updated successfully")
SavedName == DictGet(patient_info, "Patient Name", "")

(***************************************************************************)
(* The claims.                                                             *)
(***************************************************************************)

\* C1: once the generator has failed for a section (a warning for it is
\* shown), the run does not abort (no exception ends it), that section has
\* exactly one warning, every attempted section without a warning has its
\* content in the output, and a run that returns has attempted every section.
C1_NonCascadingFailure ==
    (\E j \in DOMAIN Sections : Warnings(j) > 0) =>
        /\ pc # "failed"
        /\ \A j \in DOMAIN Sections : Warnings(j) <= 1
        /\ \A j \in Attempted : Warnings(j) = 0 => InOutput(j)
        /\ pc \in {"returned", "done"} => Attempted = DOMAIN Sections

\* C2: when the generator has failed for every section, the handler ends with
\* the error "Failed to generate the report", shows no success message,
\* stores no report in generated_report and exports or persists nothing.
AllSectionsFailed ==
    pc = "done" /\ \A j \in DOMAIN Sections : Warnings(j) = 1
C2_TotalFailureSignaled ==
    AllSectionsFailed =>
        /\ Shown("error", "Failed to generate the report. Please try again.")
        /\ ~SomeShown("success")
        /\ generated_report = NoReport
        /\ calls.docs = 0 /\ calls.sheet_writes = 0

\* C3: when retrieval raises on every query, the handler does not end in an
\* exception, every generation call it makes has the empty context, and it
\* shows no error, only warnings.
C3_ContextDegradation ==
    stub.retr = {"raise"} =>
        /\ pc # "failed"
        /\ calls.gen > 0 => prompt.context = <<>>
        /\ ~SomeShown("error") /\ ~SomeShown("exception")

\* C4: in every state the headings of the report being built, and of the
\* report stored in the session, are the section list restricted to the
\* attempted sections that did not fail, in the list's order and once each.
SucceededInOrder ==
    SelectSeq(Sections, LAMBDA sec :
        \E j \in Attempted : Sections[j] = sec /\ Warnings(j) = 0)
C4_HeadingOrder ==
    /\ Headings(document) = SucceededInOrder
    /\ (pc = "done" /\ generated_report # NoReport) =>
          Headings(generated_report.body) = SucceededInOrder

\* C4 happens: a run has returned with sections 1 and 3 in the report and
\* section 2 failed between them.
C4_Witness ==
    /\ pc = "returned"
    /\ Warnings(1) = 0 /\ Warnings(2) = 1 /\ Warnings(3) = 0
    /\ Len(Headings(document)) >= 2

\* C5: generation starts only when more than half of the required fields of
\* the intake are populated.
C5_GenerationGated ==
    GenerationStarted => 2 * gate.populated > gate.fields

\* C6: the gate accepts exactly when 2k > N, k populated fields of N: half
\* populated is rejected, one more than half is accepted.
C6_GateBoundary ==
    gate.decision # "none" =>
        (gate.decision = "accept" <=> 2 * gate.populated > gate.fields)

C8_OneRowPerName ==
    /\ \A r1, r2 \in 2..Len(sheet) :
          r1 # r2 => NameOfRow(sheet[r1]) # NameOfRow(sheet[r2])
    /\ (pc \in {"saved", "done"} /\ SavedOk) =>
          Cardinality({r \in 2..Len(sheet) : NameOfRow(sheet[r]) = SavedName}) = 1

\* C9: after a save that succeeded, the row of the name saved holds the
\* values of the record saved in every cell, and nothing else.
C9_LatestValues ==
    (pc \in {"saved", "done"} /\ SavedOk /\ RowIndex(ColumnA(sheet), SavedName) # 0) =>
        sheet[RowIndex(ColumnA(sheet), SavedName)] = UpdateRow(<<>>, DictValues(patient_info))

\* C10: every attempted section is accounted for exactly once, either in the
\* output (heading and text, no warning) or by one warning (nothing in the
\* output); a section not yet attempted is neither; a run that has returned
\* has attempted all n sections; an answer that is None or empty is a failure.
C10_CompleteAccounting ==
    /\ \A j \in DOMAIN Sections :
          IF j \in Attempted
          THEN \/ InOutput(j) /\ Warnings(j) = 0
               \/ Absent(j) /\ Warnings(j) = 1
          ELSE Absent(j) /\ Warnings(j) = 0
    /\ pc \in {"returned", "done"} =>
          /\ Attempted = DOMAIN Sections
          /\ Cardinality({j \in Attempted : InOutput(j)})
               + Cardinality({j \in Attempted : Warnings(j) = 1}) = Len(Sections)
    /\ (Attempted # {} /\ prompt.answer \in {None, ""}) =>
          /\ prompt.section = Sections[i - 1]
          /\ Absent(i - 1) /\ Warnings(i - 1) = 1

\* C11: from the call of generate_diagnostic_report to its return (the
\* handler at its retrieval, or inside the loop over the sections), no step
\* changes st.session_state.patient_info, whatever the sections' outcomes.
C11_IntakeNotMutated ==
    [][(pc \in {"retrieve", "loop"}) => (patient_info' = patient_info)]_vars

\* C11 happens: the assembler has returned after a section failed, the
\* handler's copy differs from the intake, and the intake is still what the
\* form left (its Age is the form's string).
C11_Witness ==
    /\ pc = "returned"
    /\ \E j \in DOMAIN Sections : Warnings(j) = 1
    /\ prog = "app" /\ user_input # patient_info
    /\ DictGet(patient_info, "Age", "") = ToString(calculate_age(dob))

\* C10 happens: a run over all sections has returned, the first section is in
\* the output, the second failed, and the last answer was the empty string.
C10_Witness ==
    /\ pc = "returned"
    /\ InOutput(1)
    /\ Warnings(2) = 1
    /\ prompt.answer = ""
    /\ Shown("error", "An error occurred")

\* C12: a generation call is issued one at a time and for the next section
\* only: when the call for a section is made, every earlier section already
\* has its outcome (content in the report or a warning) and the progress bar
\* already shows the number of sections done.
C12_SequentialGeneration ==
    [][(calls.gen' > calls.gen) =>
          (/\ calls.gen' = calls.gen + 1
           /\ prompt'.section = Sections[calls.gen + 1]
           /\ progress = calls.gen
           /\ \A j \in 1..calls.gen : InOutput(j) \/ Warnings(j) = 1)]_vars

\* C12 happens: the third call is about to be made after one failed and one
\* successful section.
C12_Witness ==
    /\ pc = "loop" /\ calls.gen = 2 /\ progress = 2
    /\ Warnings(1) = 1 /\ InOutput(2)

InReport(j) ==
    \E q \in DOMAIN generated_report.body :
        generated_report.body[q].text = ContentOf(Sections[j])

\* the "Heading 1" paragraphs of the docx offered for download that carry
\* section j's title
ExportedHeading(j) ==
    {q \in DOMAIN download :
        download[q].style = "Heading 1" /\ download[q].text = Sections[j]}

\* C14: the docx offered for download has, for each section whose text is in
\* the report, exactly one heading with the section's title, immediately
\* followed by a paragraph with that text, and no heading for another section.
C14_ExportStructure ==
    download # <<>> =>
        \A j \in DOMAIN Sections :
            IF InReport(j)
            THEN /\ Cardinality(ExportedHeading(j)) = 1
                 /\ \A q \in ExportedHeading(j) :
                       /\ q + 1 \in DOMAIN download
                       /\ download[q + 1].style = "Normal"
                       /\ download[q + 1].text = ContentOf(Sections[j])
            ELSE ExportedHeading(j) = {}

\* C15: the progress reported is the number of sections attempted so far (of
\* n), whether they succeeded or failed; it never decreases during a run and
\* is n of n, that is 1, when the run has returned.
C15_ProgressReporting ==
    /\ [](pc \in {"loop", "returned", "done", "failed"} =>
             progress = Cardinality(Attempted))
    /\ [](pc \in {"returned", "done"} => progress = Len(Sections))
    /\ [][(pc \in {"retrieve", "loop"}) => (progress' >= progress)]_vars

\* C15 happens: three sections attempted, the last one failed, progress 3 of n.
C15_Witness ==
    /\ pc = "loop" /\ progress = 3
    /\ Warnings(3) = 1 /\ InOutput(2)

\* seq holds part as a run of consecutive elements
Contains(seq, part) ==
    \E k \in 0..(Len(seq) - Len(part)) : SubSeq(seq, k + 1, k + Len(part)) = part

\* C16: the context in a generation prompt is the passages of the retrieval
\* made for it (the handler's, or the section's own), joined in the order
\* returned; and the passages the handler's retrieval fetched for the run are
\* in the prompts of the run.
C16_ContextPassing ==
    calls.gen > 0 =>
        /\ \/ prompt.context = Join(Passages(IntakeQuery))
           \/ prompt.context = Join(Passages(prompt.section))
           \/ prompt.context = Join(Passages(IntakeQuery)) \o <<"\n">>
                                 \o Join(Passages(prompt.section))
        /\ Contains(prompt.context, context)

\* the handler ended in an exception
RetrievalRaised ==
    \/ Shown("error", "An error occurred during report generation")
    \/ Shown("exception", "uncaught")

\* C17: the generator is called once per section, in the list's order and
\* never twice for a section: at most n calls, exactly n when the assembler
\* has returned; a run ends, and it ends without returning only when a
\* retrieval raised.
C17_EachSectionOnce ==
    /\ [](calls.gen <= Len(Sections))
    /\ [](pc \in {"returned", "done"} => calls.gen = Len(Sections))
    /\ [](pc = "failed" => RetrievalRaised)
    /\ [][(calls.gen' > calls.gen) =>
             (calls.gen' = calls.gen + 1 /\ prompt'.section = Sections[calls.gen'])]_vars
    /\ <>(pc \in {"done", "failed"})

\* C17 happens: a run has ended after n generator calls, the first of which
\* failed and was not tried again.
C17_Witness ==
    /\ pc = "done" /\ calls.gen = Len(Sections)
    /\ Warnings(1) = 1 /\ InOutput(2)

\* the Save handler found no name: it said so and left the sheet alone
SaveRefused ==
    /\ sheet' = sheet
    /\ calls'.sheet_writes = 0
    /\ Shown("error", "Please enter patient name before saving")'

\* C18: no row of the sheet has an empty name, and a press of "Save Patient
\* Information" without a name writes nothing and shows an error.
C18_NonEmptyNameKey ==
    /\ [](\A r \in 2..Len(sheet) : NameOfRow(sheet[r]) # "")
    /\ [][(pc' = "saved" /\ ~Truthy(DictGet(patient_info', "Patient Name", "")))
             => SaveRefused]_vars

(***************************************************************************)
(* save_or_update_patient and search_patient applied to one sheet, with    *)
(* names that differ in case only.                                         *)
(***************************************************************************)
\* the last one is also the text of the first header cell
StoreNames == {"Jane", "jane", "Li", "Patient Name"}

InitStore ==
    /\ prog = "app"
    /\ stub = Working
    /\ session_keys = {"patient_info", "generated_report"}
    /\ patient_info = <<>>
    /\ generated_report = NoReport
    /\ pc = "idle"
    /\ Locals0
    /\ dob = DefaultDob
    /\ sheet = <<Headers>>
    /\ docs = <<>>

\* save_or_update_patient(sheets_service, patient_data) for a record with a name
StoreSave ==
    /\ pc = "idle"
    /\ \E name \in StoreNames, fill \in FillLevels, o \in SheetOutcomes :
          /\ patient_info' = FormLiteral(name, fill)
          /\ sheet' = Saved(sheet, FormLiteral(name, fill), o).sheet
          /\ msgs' = Show(EmptyBag, <<Saved(sheet, FormLiteral(name, fill), o).msg>>)
          /\ calls' = [NoCalls EXCEPT !.sheet_writes = Saved(sheet, FormLiteral(name, fill), o).writes]
    /\ pc' = "saved"
    /\ UNCHANGED <<prog, stub, session_keys, generated_report, i, document, progress,
                   context, prompt, gate, docs, dob, user_input, download>>

\* search_patient(sheets_service, name); the caller keeps what it returns
StoreSearch ==
    /\ pc = "idle"
    /\ \E name \in StoreNames :
          LET found == search_patient(sheet, name, TRUE)
          IN  /\ patient_info' = IF found.found THEN found.data ELSE patient_info
              /\ msgs' = Show(EmptyBag,
                              IF found.found THEN <<>>
                              ELSE <<Msg("warning", "No patient found with name", "")>>)
    /\ pc' = "shown"
    /\ UNCHANGED <<prog, stub, session_keys, generated_report, i, document, progress,
                   context, prompt, calls, gate, sheet, docs, dob, user_input, download>>

NextStore == StoreSave \/ StoreSearch \/ EndRun

SpecStore == InitStore /\ [][NextStore]_vars

\* C19: for every name, search_patient finds a row exactly when
\* save_or_update_patient would update one, and it is that row; no two rows
\* of the sheet hold names that search_patient takes for the same.
C19_LookupAgreesWithSave ==
    /\ \A name \in StoreNames :
          LET found == search_patient(sheet, name, TRUE)
              row_index == RowIndex(ColumnA(sheet), name)
          IN  IF row_index = 0 THEN ~found.found
              ELSE found.found /\ found.data = DictZip(sheet[1], sheet[row_index])
    /\ \A r1, r2 \in 2..Len(sheet) :
          r1 # r2 => Lower(NameOfRow(sheet[r1])) # Lower(NameOfRow(sheet[r2]))

(***************************************************************************)
(* The date of birth: st.date_input in the form of a new patient, then the *)
(* Generate handler, which parses the stored string again.                 *)
(***************************************************************************)
\* st.date_input(label, value) with no min_value and no max_value: the dates
\* offered are those from value - 10 years to value + 10 years
DateInputSpan == 10

YearsFrom(d, n) == [d EXCEPT !.year = @ + n]

DateChoices(value) ==
    {d \in [year : (value.year - DateInputSpan)..(value.year + DateInputSpan),
            month : {dm[2] : dm \in DayMonths}, day : {dm[1] : dm \in DayMonths}] :
        /\ <<d.day, d.month>> \in DayMonths
        /\ DateLeq(YearsFrom(value, 0 - DateInputSpan), d)
        /\ DateLeq(d, YearsFrom(value, DateInputSpan))}

\* the widget's value argument: the stored date of birth parsed, or now()
WidgetValue(patient_data) ==
    LET stored == DictGet(patient_data, "Date of Birth (DD/MM/YY)", "")
    IN  IF Truthy(stored) THEN strptime_dmy(stored) ELSE Today

\* the form's dict literal when the user has picked the date d
FormLiteralDob(name, fill, d) ==
    DictUpdate(FormLiteral(name, fill),
               << <<"Date of Birth (DD/MM/YY)", strftime_dmy(d)>>,
                  <<"Age", ToString(calculate_age(d))>> >>)

\* the generator answers every call, Docs refuses the report (no row is
\* written for it)
DobStub == [gen |-> {"text"}, retr |-> {"passages"}, docs |-> {"fail_early"}, sheets |-> {"ok"}]

InitDob ==
    /\ prog = "app"
    /\ stub = DobStub
    /\ session_keys = {"patient_info", "generated_report"}
    /\ patient_info = <<>>
    /\ generated_report = NoReport
    /\ pc = "idle"
    /\ Locals0
    /\ dob = Today
    /\ sheet = <<Headers>>
    /\ docs = <<>>

\* patient_info_page() for "New Patient" (no patient is stored): the session
\* is cleared, the date widget starts from now(), the user picks a date
DobPage ==
    /\ get_all_patients(sheet) = {}
    /\ \E d \in DateChoices(WidgetValue(<<>>)), name \in NameInputs, fill \in FillLevels :
          /\ dob' = d
          /\ patient_info' = DictUpdate(<<>>, FormLiteralDob(name, fill, d))
    /\ generated_report' = NoReport
    /\ msgs' = Show(EmptyBag, <<clear_patient_data_msg>>)
    /\ FreshLocals
    /\ UNCHANGED <<download, prog, stub, session_keys, sheet, docs>>

\* a script run of the page without a button
DobRender == pc = "idle" /\ DobPage /\ pc' = "shown"

\* "Generate TCM Diagnostic Report" after the page has rendered
DobGenerateClick == pc = "idle" /\ DobPage /\ pc' = "clicked"

NextDob ==
    \/ DobRender
    \/ DobGenerateClick
    \/ Gate
    \/ Retrieve
    \/ Section
    \/ Finish
    \/ EndRun

SpecDob == InitDob /\ [][NextDob]_vars

\* C20: once the handler has serialized the intake, the stored date of birth
\* parses back to the date the user entered, the Age serialized is
\* calculate_age of that date, and it is not negative.
C20_DobRoundTrip ==
    user_input # <<>> =>
        /\ strptime_dmy(DictGet(patient_info, "Date of Birth (DD/MM/YY)", "")) = dob
        /\ DictGet(user_input, "Age", "") = IntValue(calculate_age(dob))
        /\ calculate_age(dob) >= 0

(***************************************************************************)
(* pages/patient_information.py: the form, its progress and its two        *)
(* "Generate Report" buttons.                                              *)
(***************************************************************************)
InfoRequiredFields ==
    << "name", "dob", "gender", "occupation", "chief_complaint", "complaint_background",
       "medical_history", "lifestyle", "current_medications", "tongue_color",
       "tongue_coating", "tongue_moisture", "pulse_rate", "additional_symptoms" >>

InfoQuestions == 0..9
question_answer(n) == "question_" \o ToString(n) \o "_answer"
question_details(n) == "question_" \o ToString(n) \o "_details"

\* all_fields = required_fields + question_fields
InfoAllFields == InfoRequiredFields \o [j \in 1..10 |-> question_answer(j - 1)]

\* calculate_progress() : filled_fields / len(all_fields), kept as the pair
calculate_progress(info) ==
    [filled |-> Cardinality({j \in DOMAIN InfoAllFields :
                                Truthy(DictGet(info, InfoAllFields[j], None))}),
     fields |-> Len(InfoAllFields)]

\* calculate_progress() > 0.5
OverHalf(p) == 2 * p.filled > p.fields

\* date.strftime("%d/%m/%Y")
strftime_dmY(d) == Pad2(d.day) \o "/" \o Pad2(d.month) \o "/" \o ToString(d.year)

\* what the user may leave in the date text box: nothing, or a date the
\* page accepts
InfoDobInputs == {"", strftime_dmY(DefaultDob)}

\* age: calculate_age(dob) for a date that parses, None otherwise
InfoAge(dob_str) ==
    IF dob_str = strftime_dmY(DefaultDob) THEN IntValue(calculate_age(DefaultDob))
    ELSE None

\* the free-text widgets of the page other than the name, in form order
InfoTextKeys ==
    << "occupation", "chief_complaint", "complaint_background", "medical_history",
       "lifestyle", "current_medications", "additional_symptoms" >>

InfoText(k, fill) == IF \E j \in 1..fill : InfoTextKeys[j] = k THEN "text" ELSE ""

\* the loop over the ten questions: the answer is stored always, the
\* details only for "Yes"
RECURSIVE InfoAnswers(_, _, _)
InfoAnswers(info, n, yes) ==
    IF n \notin InfoQuestions THEN info
    ELSE LET with_details == IF n \in yes
                             THEN DictSet(info, question_details(n), "text")
                             ELSE info
         IN  InfoAnswers(DictSet(with_details, question_answer(n),
                                 IF n \in yes THEN "Yes" ELSE "No"),
                         n + 1, yes)

\* the dict literal of st.session_state.patient_info.update({...})
InfoLiteral(name, dob_str, fill) ==
    << <<"name", name>>, <<"dob", dob_str>>, <<"age", InfoAge(dob_str)>>,
       <<"gender", "Male">>,
       <<"occupation", InfoText("occupation", fill)>>,
       <<"chief_complaint", InfoText("chief_complaint", fill)>>,
       <<"complaint_background", InfoText("complaint_background", fill)>>,
       <<"medical_history", InfoText("medical_history", fill)>>,
       <<"lifestyle", InfoText("lifestyle", fill)>>,
       <<"current_medications", InfoText("current_medications", fill)>>,
       <<"tongue_color", "Not analysed">>, <<"tongue_coating", "'None'">>,
       <<"tongue_shape", "">>, <<"tongue_moisture", "Normal">>,
       <<"pulse_rate", IntValue(70)>>, <<"pulse_quality", "">>,
       <<"additional_symptoms", InfoText("additional_symptoms", fill)>> >>

\* the questions answered "Yes" in one script run
InfoYesSets == {{}, {0}}

\* every value of st.session_state.patient_info after the page has rendered
InfoRenders(info) ==
    {DictUpdate(InfoAnswers(info, 0, yes), InfoLiteral(name, dob_str, fill)) :
        name \in NameInputs, dob_str \in InfoDobInputs, fill \in FillLevels,
        yes \in InfoYesSets}

InitInfo ==
    /\ prog = "info"
    /\ stub = Working
    /\ session_keys = {}
    /\ patient_info = <<>>
    /\ generated_report = NoReport
    /\ pc = "idle"
    /\ Locals0
    /\ dob = DefaultDob
    /\ sheet = <<Headers>>
    /\ docs = <<>>

\* a script run of the page without a button
InfoRender ==
    /\ prog = "info" /\ pc = "idle"
    /\ patient_info' \in InfoRenders(patient_info)
    /\ session_keys' = session_keys \cup {"patient_info"}
    /\ gate' = [decision  |-> "none",
                populated |-> calculate_progress(patient_info).filled,
                fields    |-> calculate_progress(patient_info).fields]
    /\ pc' = "shown"
    /\ msgs' = EmptyBag
    /\ UNCHANGED <<prog, stub, generated_report, i, document, progress, context, prompt,
                   calls, sheet, docs, dob, user_input, download>>

\* the first "Generate Report" button: if st.session_state.patient_info
InfoGenerateFirst ==
    /\ prog = "info" /\ pc = "idle"
    /\ \E info \in InfoRenders(patient_info) :
          /\ patient_info' = info
          /\ gate' = [decision  |-> IF info # <<>> THEN "accept" ELSE "reject",
                      populated |-> Len(info), fields |-> 0]
          /\ IF info # <<>>
             THEN /\ session_keys' = session_keys \cup {"patient_info", "generate_report", "page"}
                  /\ pc' = "accepted"
                  /\ msgs' = EmptyBag
             ELSE /\ session_keys' = session_keys \cup {"patient_info"}
                  /\ pc' = "rejected"
                  /\ msgs' = Show(EmptyBag,
                       <<Msg("warning", "Please fill in patient information before generating a report.", "")>>)
    /\ UNCHANGED <<prog, stub, generated_report, i, document, progress, context, prompt,
                   calls, sheet, docs, dob, user_input, download>>

\* the second "Generate Report" button: if calculate_progress() > 0.5
InfoGenerateSecond ==
    /\ prog = "info" /\ pc = "idle"
    /\ \E info \in InfoRenders(patient_info) :
          /\ patient_info' = info
          /\ gate' = [decision  |-> IF OverHalf(calculate_progress(info))
                                    THEN "accept" ELSE "reject",
                      populated |-> calculate_progress(info).filled,
                      fields    |-> calculate_progress(info).fields]
          /\ IF OverHalf(calculate_progress(info))
             THEN /\ session_keys' = session_keys \cup {"patient_info", "generate_report", "page"}
                  /\ pc' = "accepted"
                  /\ msgs' = EmptyBag
             ELSE /\ session_keys' = session_keys \cup {"patient_info"}
                  /\ pc' = "rejected"
                  /\ msgs' = Show(EmptyBag,
                       <<Msg("warning", "Please fill in more patient information before generating a report.", "")>>)
    /\ UNCHANGED <<prog, stub, generated_report, i, document, progress, context, prompt,
                   calls, sheet, docs, dob, user_input, download>>

\* the script run of the page is over
InfoEndRun ==
    /\ prog = "info" /\ pc \in {"shown", "accepted", "rejected"}
    /\ pc' = "idle"
    /\ FreshLocals
    /\ msgs' = EmptyBag
    /\ UNCHANGED <<prog, stub, session_keys, patient_info, generated_report, sheet, docs,
                   dob, download>>

\* app.py and pages/patient_information.py side by side
InitGate == Init \/ InitInfo

NextGate ==
    \/ Next
    \/ InfoRender
    \/ InfoGenerateFirst
    \/ InfoGenerateSecond
    \/ InfoEndRun

SpecGate == InitGate /\ [][NextGate]_vars

\* the widgets of pages/patient_information.py that always hold a value
InfoAlwaysFilled ==
    {"gender", "tongue_color", "tongue_coating", "tongue_moisture", "pulse_rate"}
        \cup {question_answer(n) : n \in InfoQuestions}

C22_ReportLifetime ==
    [][(ReportTruthy(generated_report) /\ generated_report' # generated_report)
          => (ClearClick \/ Finish)]_vars

\* the sheet after a step differs from the sheet before in the row r only
OnlyRowChanged(r) ==
    /\ Len(sheet') = Len(sheet)
    /\ \A q \in DOMAIN sheet : q # r => sheet'[q] = sheet[q]

\* the sheet after a step is the sheet before with one more row
OneRowAppended ==
    /\ Len(sheet') = Len(sheet) + 1
    /\ SubSeq(sheet', 1, Len(sheet)) = sheet

\* C23: a save leaves the header row as it was and changes nothing else
\* than either the data row that holds the name saved or one new row at the
\* end; a save that issued no write, or that reported an error, changes
\* nothing.
C23_SaveFrame ==
    [][StoreSave =>
          /\ sheet'[1] = sheet[1]
          /\ \/ sheet' = sheet
             \/ OneRowAppended
                  /\ NameOfRow(sheet'[Len(sheet')]) = DictGet(patient_info', "Patient Name", None)
             \/ \E r \in 2..Len(sheet) :
                  /\ OnlyRowChanged(r)
                  /\ NameOfRow(sheet[r]) = DictGet(patient_info', "Patient Name", None)
          /\ (calls'.sheet_writes = 0) => (sheet' = sheet)
          /\ Shown("error", "Error saving/updating patient data")' => (sheet' = sheet)]_vars

\* C24: while the Generate handler of app.py runs towards an exception, the
\* session's report and intake, the sheet and Drive stay as they were when
\* it started; once it has ended in the exception, no document and no row
\* was written, the intake carries no report id or link of this run, and an
\* error is shown.
C24_FailureLeavesState ==
    /\ [][(prog = "app" /\ pc \in {"clicked", "retrieve", "loop"}
              /\ pc' \in {"retrieve", "loop", "failed"})
             => UNCHANGED <<generated_report, patient_info, sheet, docs>>]_vars
    /\ [](prog = "app" /\ pc = "failed" =>
             /\ calls.docs = 0 /\ calls.sheet_writes = 0
             /\ "Report ID" \notin DictKeys(patient_info)
             /\ "Report Link" \notin DictKeys(patient_info)
             /\ Shown("error", "An error occurred during report generation"))

\* C24 happens: generation raised after two sections had been written.
C24_Witness ==
    /\ prog = "app" /\ pc = "failed"
    /\ calls.gen = 2 /\ InOutput(1) /\ InOutput(2)
    /\ generated_report = NoReport

\* the document with this id is in Drive and holds its report
SavedDocument(doc_id) ==
    \E k \in DOMAIN docs : doc_id = DocId(k) /\ docs[k].content # <<>>

\* the Generate handler reported that the document could not be saved
DocsFailed == Shown("error", "Failed to save the report to Google Docs.")

\* C25: a report id in the session's intake or in a cell of the sheet is the
\* id of a document saved with its content, and the link beside it is that
\* document's; a handler whose document could not be saved leaves intake and
\* sheet as they were and still sets the session's report; a handler that
\* writes the row writes the new id and link into it.
C25_LinkOnlyForSavedDocument ==
    /\ [](Truthy(DictGet(patient_info, "Report ID", "")) =>
             /\ SavedDocument(DictGet(patient_info, "Report ID", ""))
             /\ \E k \in DOMAIN docs :
                   /\ DictGet(patient_info, "Report ID", "") = DocId(k)
                   /\ DictGet(patient_info, "Report Link", "") = DocLink(k))
    /\ [](\A r \in 2..Len(sheet) : \A c \in DOMAIN sheet[r] : \A k \in 1..MaxDocs :
             sheet[r][c] \in {DocId(k), DocLink(k)} => SavedDocument(DocId(k)))
    /\ [][(pc = "returned" /\ pc' = "done" /\ DocsFailed') =>
             /\ patient_info' = patient_info
             /\ sheet' = sheet
             /\ calls'.sheet_writes = 0
             /\ ReportTruthy(generated_report')]_vars
    /\ [][(pc = "returned" /\ pc' = "done" /\ sheet' # sheet) =>
             /\ Len(docs') = Len(docs) + 1
             /\ DictGet(patient_info', "Report ID", "") = DocId(Len(docs'))
             /\ DictGet(patient_info', "Report Link", "") = DocLink(Len(docs'))
             /\ \E r \in 2..Len(sheet') :
                   /\ \E c \in DOMAIN sheet'[r] : sheet'[r][c] = DocId(Len(docs'))
                   /\ \E c \in DOMAIN sheet'[r] : sheet'[r][c] = DocLink(Len(docs'))]_vars

\* C25 happens: Drive holds a file whose content could not be written, the
\* handler has ended, the session has the report and neither the intake nor
\* the sheet has a report id.
C25_Witness ==
    /\ pc = "done" /\ DocsFailed
    /\ Len(docs) = 1 /\ docs[1].content = <<>>
    /\ ReportTruthy(generated_report)
    /\ "Report ID" \notin DictKeys(patient_info)
    /\ Len(sheet) = 1

====
